---- MODULE Spec2Model ----
(***************************************************************************)
(* Model of src/mcp/server/auth/routes.py: the issuer validator, the       *)
(* authorization-server metadata builder, the cross-origin wrapper and the *)
(* route table assembler.                                                  *)
(*                                                                         *)
(* Strings are sequences of tokens.  Every "/", ":", "?" and "#" of a      *)
(* string is a token of its own; a run of other characters is one token.   *)
(* Python's Optional values are sequences of length 0 (None) or 1.         *)
(***************************************************************************)
EXTENDS Naturals, Sequences, FiniteSets

VARIABLES
    pc,                           \* position of the call in progress
    call,                         \* the function that was called
    issuer_url,                   \* argument: the issuer URL object
    service_documentation_url,    \* argument: Optional URL
    client_registration_options,  \* argument, then local (line 77)
    revocation_options,           \* argument, then local (line 78)
    metadata,                     \* local of create_auth_routes (line 79)
    client_authenticator,         \* local of create_auth_routes (line 85)
    routes,                       \* local of create_auth_routes (line 91)
    ret,                          \* Optional: the value returned
    exc,                          \* Optional: the message of the ValueError raised
    events                        \* history: what has been run or constructed, in order

vars == <<pc, call, issuer_url, service_documentation_url,
          client_registration_options, revocation_options, metadata,
          client_authenticator, routes, ret, exc, events>>

-----------------------------------------------------------------------------
(* Bounds of the model *)

\* longest path of an issuer URL, in tokens
MaxPathLen == 2

-----------------------------------------------------------------------------
(* Python values *)

None == <<>>
Some(v) == <<v>>
Get(o) == o[1]

\* truth value of an Optional[str]: None and the empty string are false
Truthy(o) == o # None /\ Get(o) # <<>>

\* str.startswith
StartsWith(s, prefix) ==
    /\ Len(s) >= Len(prefix)
    /\ SubSeq(s, 1, Len(prefix)) = prefix

\* a slip: only the last character is removed
RStripOne(s, c) ==
    IF s # <<>> /\ s[Len(s)] = c
    THEN SubSeq(s, 1, Len(s) - 1)
    ELSE s

\* str.rstrip(c): every trailing c is removed
RECURSIVE RStrip(_, _)
RStrip(s, c) ==
    IF s # <<>> /\ s[Len(s)] = c
    THEN RStrip(SubSeq(s, 1, Len(s) - 1), c)
    ELSE s

\* index of the first occurrence of token c in s, 0 when there is none
FirstIdx(s, c) ==
    IF \E i \in 1..Len(s) : s[i] = c
    THEN CHOOSE i \in 1..Len(s) : s[i] = c /\ \A j \in 1..(i - 1) : s[j] # c
    ELSE 0

-----------------------------------------------------------------------------
(* URL objects (pydantic AnyHttpUrl): scheme, host, path, query, fragment *)

Url(scheme, host, path, query, fragment) ==
    [scheme |-> scheme, host |-> host, path |-> path,
     query |-> query, fragment |-> fragment]

\* str(url)
Str(u) ==
    <<u.scheme, ":", "/", "/">>
    \o (IF u.host = None THEN <<>> ELSE Get(u.host))
    \o u.path
    \o (IF u.query = None THEN <<>> ELSE <<"?">> \o Get(u.query))
    \o (IF u.fragment = None THEN <<>> ELSE <<"#">> \o Get(u.fragment))

\* AnyHttpUrl(s): parse s; an empty path becomes "/"
AnyHttpUrl(s) ==
    LET h    == FirstIdx(s, "#")
        pre  == IF h = 0 THEN s ELSE SubSeq(s, 1, h - 1)
        frag == IF h = 0 THEN None ELSE Some(SubSeq(s, h + 1, Len(s)))
        q    == FirstIdx(pre, "?")
        base == IF q = 0 THEN pre ELSE SubSeq(pre, 1, q - 1)
        qry  == IF q = 0 THEN None ELSE Some(SubSeq(pre, q + 1, Len(pre)))
        rest == SubSeq(base, 5, Len(base))
        p    == FirstIdx(rest, "/")
        host == IF p = 0 THEN rest ELSE SubSeq(rest, 1, p - 1)
        path == IF p = 0 THEN <<"/">> ELSE SubSeq(rest, p, Len(rest))
    IN  Url(base[1], IF host = <<>> THEN None ELSE Some(host), path, qry, frag)

-----------------------------------------------------------------------------
(* validate_issuer_url *)

Ok == "ok"
ErrHttps == "Issuer URL must be HTTPS"
ErrFragment == "Issuer URL must not have a fragment"
ErrQuery == "Issuer URL must not have a query string"

\* the outcome of validate_issuer_url(url): Ok, or the message of the ValueError
validate_issuer_url(url) ==
    IF /\ url.scheme # "https"
       /\ url.host # Some(<<"localhost">>)
       /\ (url.host # None /\ ~StartsWith(Get(url.host), <<"127.0.0.1">>))
    THEN ErrHttps
    ELSE IF Truthy(url.fragment) THEN ErrFragment
    ELSE IF Truthy(url.query) THEN ErrQuery
    ELSE Ok

-----------------------------------------------------------------------------
(* Path constants *)

WELL_KNOWN_PATH == <<"/", ".well-known", "/", "oauth-authorization-server">>
AUTHORIZATION_PATH == <<"/", "authorize">>
TOKEN_PATH == <<"/", "token">>
REGISTRATION_PATH == <<"/", "register">>
REVOCATION_PATH == <<"/", "revoke">>

-----------------------------------------------------------------------------
(* build_metadata *)

\* a slip: the registration endpoint is advertised whatever the policy says
RegistrationEndpointAlways(issuer, cro) ==
    Some(AnyHttpUrl(RStrip(Str(issuer), "/") \o REGISTRATION_PATH))

\* lines 178-179: metadata.registration_endpoint
RegistrationEndpoint(issuer, cro) ==
    IF cro.enabled
    THEN Some(AnyHttpUrl(RStrip(Str(issuer), "/") \o REGISTRATION_PATH))
    ELSE None

\* lines 182-183: metadata.revocation_endpoint
RevocationEndpoint(issuer, ro) ==
    IF ro.enabled
    THEN Some(AnyHttpUrl(RStrip(Str(issuer), "/") \o REVOCATION_PATH))
    ELSE None

\* a slip: the auth methods are set outside the "if"
RevocationAuthMethodsAlways(ro) == Some(<<"client_secret_post">>)

\* lines 182, 184: metadata.revocation_endpoint_auth_methods_supported
RevocationAuthMethods(ro) ==
    IF ro.enabled THEN Some(<<"client_secret_post">>) ELSE None

build_metadata(issuer, documentation, cro, ro) ==
    LET authorization_url ==
            AnyHttpUrl(RStrip(Str(issuer), "/") \o AUTHORIZATION_PATH)
        token_url ==
            AnyHttpUrl(RStrip(Str(issuer), "/") \o TOKEN_PATH)
    IN  [issuer |-> issuer,
         authorization_endpoint |-> authorization_url,
         token_endpoint |-> token_url,
         scopes_supported |-> cro.valid_scopes,
         response_types_supported |-> Some(<<"code">>),
         response_modes_supported |-> None,
         grant_types_supported |->
             Some(<<"authorization_code", "refresh_token">>),
         token_endpoint_auth_methods_supported |->
             Some(<<"client_secret_post">>),
         token_endpoint_auth_signing_alg_values_supported |-> None,
         service_documentation |-> documentation,
         ui_locales_supported |-> None,
         op_policy_uri |-> None,
         op_tos_uri |-> None,
         introspection_endpoint |-> None,
         code_challenge_methods_supported |-> Some(<<"S256">>),
         registration_endpoint |-> RegistrationEndpoint(issuer, cro),
         revocation_endpoint |-> RevocationEndpoint(issuer, ro),
         revocation_endpoint_auth_methods_supported |->
             RevocationAuthMethods(ro)]

-----------------------------------------------------------------------------
(* cors_middleware and the route entries *)

\* an opaque handler unit: the bound method cls(...).handle
Handler(cls) == [type |-> "handler", cls |-> cls]

\* starlette's request_response(handler)
request_response(handler) == [type |-> "request_response", handler |-> handler]

cors_middleware(handler, allow_methods) ==
    [type |-> "CORSMiddleware",
     app |-> request_response(handler),
     allow_origins |-> "*",
     allow_methods |-> allow_methods,
     allow_headers |-> <<"MCP_PROTOCOL_VERSION_HEADER">>]

Route(path, endpoint, methods) ==
    [path |-> path, endpoint |-> endpoint, methods |-> methods]

\* lines 92-99
MetadataRoute ==
    Route(WELL_KNOWN_PATH,
          cors_middleware(Handler("MetadataHandler"), <<"GET", "OPTIONS">>),
          <<"GET", "OPTIONS">>)

\* a slip: the authorization endpoint wrapped like its neighbours
AuthorizationRouteWithCors ==
    Route(AUTHORIZATION_PATH,
          cors_middleware(Handler("AuthorizationHandler"), <<"GET", "POST">>),
          <<"GET", "POST">>)

\* lines 100-106
AuthorizationRoute ==
    Route(AUTHORIZATION_PATH,
          Handler("AuthorizationHandler"),
          <<"GET", "POST">>)

\* lines 107-114
TokenRoute ==
    Route(TOKEN_PATH,
          cors_middleware(Handler("TokenHandler"), <<"POST", "OPTIONS">>),
          <<"POST", "OPTIONS">>)

RegistrationRoute ==
    Route(REGISTRATION_PATH,
          cors_middleware(Handler("RegistrationHandler"), <<"POST", "OPTIONS">>),
          <<"POST", "OPTIONS">>)

RevocationRoute ==
    Route(REVOCATION_PATH,
          cors_middleware(Handler("RevocationHandler"), <<"POST", "OPTIONS">>),
          <<"POST", "OPTIONS">>)

\* lines 91-115: the list literal
BaseRoutes == <<MetadataRoute, AuthorizationRoute, TokenRoute>>

\* a slip: the entry is put at the front of the list
AppendRegistrationAtFront(rs, cro) ==
    IF cro.enabled THEN <<RegistrationRoute>> \o rs ELSE rs

\* lines 117-131: routes after the registration "if"
AppendRegistration(rs, cro) ==
    IF cro.enabled THEN Append(rs, RegistrationRoute) ELSE rs

\* a slip: the revocation entry is appended whatever the policy says
AppendRevocationAlways(rs, ro) == Append(rs, RevocationRoute)

\* lines 133-144: routes after the revocation "if"
AppendRevocation(rs, ro) ==
    IF ro.enabled THEN Append(rs, RevocationRoute) ELSE rs

-----------------------------------------------------------------------------
(* The inputs *)

Schemes == {"http", "https"}

Hosts ==
    { <<"localhost">>, <<"127.0.0.1">>, <<"127.0.0.1", ".evil.com">>,
      <<"localhost", ".evil.com">>, <<"auth.example.com">> }

\* "/", "//", "/a", ...: no token but "/" and the segment "a"
Paths ==
    UNION { { p \in [1..n -> {"/", "a"}] :
                /\ p[1] = "/"
                /\ \A i \in 1..(n - 1) : ~(p[i] = "a" /\ p[i + 1] = "a") } :
            n \in 1..MaxPathLen }

\* absent, present and empty, present and not empty
Queries == {None, Some(<<>>), Some(<<"q">>)}
Fragments == {None, Some(<<>>), Some(<<"f">>)}

\* the URLs pydantic's AnyHttpUrl parses: the host is required
AnyHttpUrls ==
    { Url(s, Some(h), p, q, f) :
        s \in Schemes, h \in Hosts, p \in Paths, q \in Queries, f \in Fragments }

\* what validate_issuer_url reads: url.host is Optional (line 38)
UrlObjects ==
    AnyHttpUrls \cup
    { Url(s, None, p, q, f) :
        s \in Schemes, p \in Paths, q \in Queries, f \in Fragments }

DocumentationUrls ==
    {None, Some(Url("https", Some(<<"docs.example.com">>), <<"/">>, None, None))}

ClientRegistrationOptionsSet ==
    [enabled : BOOLEAN, valid_scopes : {None, Some(<<"read", "write">>)}]

RevocationOptionsSet == [enabled : BOOLEAN]

\* "x or Default()": a pydantic model is never falsy, only None is replaced
OrDefault(o, d) == IF o = None THEN Some(d) ELSE o

-----------------------------------------------------------------------------
(* The calls *)

Init ==
    /\ pc = "idle"
    /\ call = "none"
    /\ issuer_url = None
    /\ service_documentation_url = None
    /\ client_registration_options = None
    /\ revocation_options = None
    /\ metadata = None
    /\ client_authenticator = None
    /\ routes = None
    /\ ret = None
    /\ exc = None
    /\ events = <<>>

\* a direct call of validate_issuer_url(url)
ValidateIssuerUrlCall ==
    \E url \in UrlObjects :
        /\ pc = "idle"
        /\ call' = "validate_issuer_url"
        /\ issuer_url' = Some(url)
        /\ events' = <<"validate_issuer_url">>
        /\ IF validate_issuer_url(url) = Ok
           THEN pc' = "returned" /\ exc' = None
           ELSE pc' = "raised" /\ exc' = Some(validate_issuer_url(url))
        /\ UNCHANGED <<service_documentation_url, client_registration_options,
                       revocation_options, metadata, client_authenticator,
                       routes, ret>>

\* a direct call of build_metadata(...)
BuildMetadataCall ==
    \E url \in AnyHttpUrls, doc \in DocumentationUrls,
       cro \in ClientRegistrationOptionsSet, ro \in RevocationOptionsSet :
        /\ pc = "idle"
        /\ call' = "build_metadata"
        /\ issuer_url' = Some(url)
        /\ service_documentation_url' = doc
        /\ client_registration_options' = Some(cro)
        /\ revocation_options' = Some(ro)
        /\ events' = <<"OAuthMetadata">>
        /\ ret' = Some(build_metadata(url, doc, cro, ro))
        /\ pc' = "returned"
        /\ UNCHANGED <<metadata, client_authenticator, routes, exc>>

\* create_auth_routes is entered (lines 68-74)
CreateAuthRoutesCall ==
    \E url \in AnyHttpUrls, doc \in DocumentationUrls,
       cro \in {None} \cup {Some(o) : o \in ClientRegistrationOptionsSet},
       ro \in {None} \cup {Some(o) : o \in RevocationOptionsSet} :
        /\ pc = "idle"
        /\ call' = "create_auth_routes"
        /\ issuer_url' = Some(url)
        /\ service_documentation_url' = doc
        /\ client_registration_options' = cro
        /\ revocation_options' = ro
        /\ pc' = "L75"
        /\ UNCHANGED <<metadata, client_authenticator, routes, ret, exc, events>>

\* a slip: the outcome of the validation is dropped
CreateValidateIgnored ==
    /\ pc = "L75"
    /\ events' = Append(events, "validate_issuer_url")
    /\ pc' = "L77"
    /\ UNCHANGED <<call, issuer_url, service_documentation_url,
                   client_registration_options, revocation_options, metadata,
                   client_authenticator, routes, ret, exc>>

\* line 75: the ValueError leaves create_auth_routes
CreateValidate ==
    /\ pc = "L75"
    /\ events' = Append(events, "validate_issuer_url")
    /\ IF validate_issuer_url(Get(issuer_url)) = Ok
       THEN pc' = "L77" /\ exc' = None
       ELSE pc' = "raised" /\ exc' = Some(validate_issuer_url(Get(issuer_url)))
    /\ UNCHANGED <<call, issuer_url, service_documentation_url,
                   client_registration_options, revocation_options, metadata,
                   client_authenticator, routes, ret>>

\* lines 77-78; the defaults are set outside this file: any value is allowed
CreateResolveOptions ==
    \E dcro \in ClientRegistrationOptionsSet, dro \in RevocationOptionsSet :
        /\ pc = "L77"
        /\ client_registration_options' = OrDefault(client_registration_options, dcro)
        /\ revocation_options' = OrDefault(revocation_options, dro)
        /\ pc' = "L79"
        /\ UNCHANGED <<call, issuer_url, service_documentation_url, metadata,
                       client_authenticator, routes, ret, exc, events>>

\* lines 79-84
CreateBuildMetadata ==
    /\ pc = "L79"
    /\ metadata' = Some(build_metadata(Get(issuer_url), service_documentation_url,
                                       Get(client_registration_options),
                                       Get(revocation_options)))
    /\ events' = Append(events, "OAuthMetadata")
    /\ pc' = "L85"
    /\ UNCHANGED <<call, issuer_url, service_documentation_url,
                   client_registration_options, revocation_options,
                   client_authenticator, routes, ret, exc>>

\* line 85
CreateClientAuthenticator ==
    /\ pc = "L85"
    /\ client_authenticator' = Some("ClientAuthenticator")
    /\ events' = Append(events, "ClientAuthenticator")
    /\ pc' = "L91"
    /\ UNCHANGED <<call, issuer_url, service_documentation_url,
                   client_registration_options, revocation_options, metadata,
                   routes, ret, exc>>

\* lines 91-115
CreateBaseRoutes ==
    /\ pc = "L91"
    /\ routes' = Some(BaseRoutes)
    /\ events' = events \o <<"MetadataHandler", "Route", "AuthorizationHandler",
                              "Route", "TokenHandler", "Route">>
    /\ pc' = "L117"
    /\ UNCHANGED <<call, issuer_url, service_documentation_url,
                   client_registration_options, revocation_options, metadata,
                   client_authenticator, ret, exc>>

\* lines 117-131
CreateRegistrationRoute ==
    /\ pc = "L117"
    /\ routes' = Some(AppendRegistration(Get(routes), Get(client_registration_options)))
    /\ events' = IF Get(client_registration_options).enabled
                 THEN events \o <<"RegistrationHandler", "Route">>
                 ELSE events
    /\ pc' = "L133"
    /\ UNCHANGED <<call, issuer_url, service_documentation_url,
                   client_registration_options, revocation_options, metadata,
                   client_authenticator, ret, exc>>

\* lines 133-144
CreateRevocationRoute ==
    /\ pc = "L133"
    /\ routes' = Some(AppendRevocation(Get(routes), Get(revocation_options)))
    /\ events' = IF Get(revocation_options).enabled
                 THEN events \o <<"RevocationHandler", "Route">>
                 ELSE events
    /\ pc' = "L146"
    /\ UNCHANGED <<call, issuer_url, service_documentation_url,
                   client_registration_options, revocation_options, metadata,
                   client_authenticator, ret, exc>>

\* line 146
CreateReturn ==
    /\ pc = "L146"
    /\ ret' = routes
    /\ pc' = "returned"
    /\ UNCHANGED <<call, issuer_url, service_documentation_url,
                   client_registration_options, revocation_options, metadata,
                   client_authenticator, routes, exc, events>>

Next ==
    \/ ValidateIssuerUrlCall
    \/ BuildMetadataCall
    \/ CreateAuthRoutesCall
    \/ CreateValidate
    \/ CreateResolveOptions
    \/ CreateBuildMetadata
    \/ CreateClientAuthenticator
    \/ CreateBaseRoutes
    \/ CreateRegistrationRoute
    \/ CreateRevocationRoute
    \/ CreateReturn

Spec == Init /\ [][Next]_vars

-----------------------------------------------------------------------------
(* What the claims speak of *)

\* a direct call of validate_issuer_url has ended
Validated == call = "validate_issuer_url" /\ pc \in {"returned", "raised"}

\* the host is exactly "localhost" or starts with "127.0.0.1"
IsLoopback(u) ==
    /\ u.host # None
    /\ \/ Get(u.host) = <<"localhost">>
       \/ StartsWith(Get(u.host), <<"127.0.0.1">>)

\* the metadata document built so far, if any: Optional
Doc == IF call = "build_metadata" THEN ret ELSE metadata

\* create_auth_routes has returned its route table
Returned == call = "create_auth_routes" /\ pc = "returned"

\* t is s without its trailing slashes
IsSlashStripped(t, s) ==
    /\ Len(t) <= Len(s)
    /\ SubSeq(s, 1, Len(t)) = t
    /\ t = <<>> \/ t[Len(t)] # "/"
    /\ \A i \in (Len(t) + 1)..Len(s) : s[i] = "/"

\* v is the issuer s, slash-stripped, followed by path
IsEndpointOf(v, s, path) ==
    /\ Len(v) >= Len(path)
    /\ SubSeq(v, Len(v) - Len(path) + 1, Len(v)) = path
    /\ IsSlashStripped(SubSeq(v, 1, Len(v) - Len(path)), s)

HasCors(route) == route.endpoint.type = "CORSMiddleware"

HasPath(rs, path) == \E i \in 1..Len(rs) : rs[i].path = path

-----------------------------------------------------------------------------
(* C1 *)

-----------------------------------------------------------------------------
(* C2 *)

\* C2: an issuer URL (a parsed AnyHttpUrl) in which a fragment or a query
\* component is present, an empty one included, makes validate_issuer_url
\* raise, whatever the scheme and the host are.
C2_FragmentOrQueryRejected ==
    Validated =>
        LET u == Get(issuer_url)
        IN  (u \in AnyHttpUrls /\ (u.fragment # None \/ u.query # None)) =>
                pc = "raised" /\ exc # None

-----------------------------------------------------------------------------
(* C3 *)

\* C3: in create_auth_routes nothing (metadata, authenticator, handler,
\* route entry) is constructed before the issuer has been validated, and a
\* failed validation ends the call in the error state with no metadata, no
\* route table and no return value.
C3_ValidationFirst ==
    call = "create_auth_routes" =>
        /\ events # <<>> => events[1] = "validate_issuer_url"
        /\ (metadata # None \/ client_authenticator # None \/ routes # None
                \/ ret # None) => Len(events) >= 2
        /\ validate_issuer_url(Get(issuer_url)) # Ok =>
              /\ pc \in {"L75", "raised"}
              /\ metadata = None /\ client_authenticator = None
              /\ routes = None /\ ret = None
              /\ Len(events) <= 1
        /\ pc = "raised" =>
              /\ exc = Some(validate_issuer_url(Get(issuer_url)))
              /\ events = <<"validate_issuer_url">>

C3_Witness ==
    /\ call = "create_auth_routes"
    /\ pc = "raised"
    /\ exc = Some(ErrHttps)
    /\ metadata = None /\ routes = None

-----------------------------------------------------------------------------
(* C4 *)

\* C4: the metadata document has registration_endpoint if and only if the
\* registration policy is enabled, and then its value is the issuer without
\* its trailing slashes followed by "/register".
C4_RegistrationEndpoint ==
    Doc # None =>
        LET md == Get(Doc)
            cro == Get(client_registration_options)
        IN  /\ md.registration_endpoint # None <=> cro.enabled
            /\ md.registration_endpoint # None =>
                  IsEndpointOf(Str(Get(md.registration_endpoint)),
                               Str(Get(issuer_url)), REGISTRATION_PATH)

C4_Witness ==
    /\ call = "build_metadata"
    /\ pc = "returned"
    /\ Get(client_registration_options).enabled
    /\ ~Get(revocation_options).enabled
    /\ Get(issuer_url).path = <<"/">>
    /\ Get(ret).registration_endpoint # None

-----------------------------------------------------------------------------
(* C5 *)

\* C5: revocation_endpoint and revocation_endpoint_auth_methods_supported
\* are both present or both absent, and present if and only if the
\* revocation policy is enabled, whatever the registration policy is.
C5_RevocationFields ==
    Doc # None =>
        LET md == Get(Doc)
            ro == Get(revocation_options)
        IN  /\ md.revocation_endpoint # None <=> ro.enabled
            /\ md.revocation_endpoint_auth_methods_supported # None <=> ro.enabled

C5_Witness ==
    /\ call = "build_metadata"
    /\ pc = "returned"
    /\ Get(revocation_options).enabled
    /\ ~Get(client_registration_options).enabled
    /\ Get(ret).revocation_endpoint # None
    /\ Get(ret).revocation_endpoint_auth_methods_supported # None

-----------------------------------------------------------------------------
(* C6 *)

\* C6: the route table returned has 3 entries, plus one if registration is
\* enabled, plus one if revocation is enabled; the first three are the
\* metadata, authorization and token paths in this order, then comes the
\* registration entry if any, then the revocation entry if any.
C6_RouteTableShape ==
    Returned =>
        LET rs == Get(ret)
            reg == Get(client_registration_options).enabled
            rev == Get(revocation_options).enabled
            n == 3 + (IF reg THEN 1 ELSE 0) + (IF rev THEN 1 ELSE 0)
        IN  /\ Len(rs) = n
            /\ rs[1].path = WELL_KNOWN_PATH
            /\ rs[2].path = AUTHORIZATION_PATH
            /\ rs[3].path = TOKEN_PATH
            /\ reg => rs[4].path = REGISTRATION_PATH
            /\ rev => rs[n].path = REVOCATION_PATH

C6_Witness ==
    /\ Returned
    /\ Get(client_registration_options).enabled
    /\ Get(revocation_options).enabled
    /\ Len(Get(ret)) = 5

-----------------------------------------------------------------------------
(* C7 *)

\* C7: in the route table returned, the authorization entry carries no
\* cross-origin policy and every other entry carries one.
C7_CorsEverywhereButAuthorize ==
    Returned =>
        LET rs == Get(ret)
        IN  /\ HasPath(rs, AUTHORIZATION_PATH)
            /\ \A i \in 1..Len(rs) :
                  HasCors(rs[i]) <=> rs[i].path # AUTHORIZATION_PATH

C7_Witness ==
    /\ Returned
    /\ \E i \in 1..Len(Get(ret)) :
          Get(ret)[i].path = AUTHORIZATION_PATH /\ ~HasCors(Get(ret)[i])
    /\ \E i \in 1..Len(Get(ret)) :
          Get(ret)[i].path = REGISTRATION_PATH /\ HasCors(Get(ret)[i])
    /\ \E i \in 1..Len(Get(ret)) :
          Get(ret)[i].path = REVOCATION_PATH /\ HasCors(Get(ret)[i])

-----------------------------------------------------------------------------
(* C8 *)

\* C8 as claimed: authorization_endpoint and token_endpoint are the issuer
\* with exactly one trailing slash removed (if it ends with one), followed
\* by "/authorize" and "/token".
C8_StripsExactlyOne ==
    Doc # None =>
        LET md == Get(Doc)
            s == Str(Get(issuer_url))
        IN  /\ Str(md.authorization_endpoint)
                  = RStripOne(s, "/") \o AUTHORIZATION_PATH
            /\ Str(md.token_endpoint) = RStripOne(s, "/") \o TOKEN_PATH

\* C8 as amended: authorization_endpoint and token_endpoint are the issuer
\* with every trailing slash removed, followed by "/authorize" and "/token".
C8_StripsEveryTrailingSlash ==
    Doc # None =>
        LET md == Get(Doc)
            s == Str(Get(issuer_url))
        IN  /\ IsEndpointOf(Str(md.authorization_endpoint), s, AUTHORIZATION_PATH)
            /\ IsEndpointOf(Str(md.token_endpoint), s, TOKEN_PATH)

C8_Witness ==
    /\ Doc # None
    /\ LET s == Str(Get(issuer_url))
       IN  /\ Len(s) >= 2
           /\ s[Len(s)] = "/"
           /\ s[Len(s) - 1] = "/"

-----------------------------------------------------------------------------
(* C10 *)

\* C10: when create_auth_routes returns, the metadata has
\* registration_endpoint (revocation_endpoint) if and only if the table has
\* an entry for "/register" ("/revoke"), and authorization_endpoint and
\* token_endpoint come with the "/authorize" and "/token" entries.
C10_AdvertisedIffRouted ==
    Returned =>
        LET md == Get(metadata)
            rs == Get(ret)
        IN  /\ md.registration_endpoint # None <=> HasPath(rs, REGISTRATION_PATH)
            /\ md.revocation_endpoint # None <=> HasPath(rs, REVOCATION_PATH)
            /\ {"authorization_endpoint", "token_endpoint"} \subseteq DOMAIN md
            /\ HasPath(rs, AUTHORIZATION_PATH)
            /\ HasPath(rs, TOKEN_PATH)
            /\ \A i \in 1..Len(rs) :
                  rs[i].path \in {WELL_KNOWN_PATH, AUTHORIZATION_PATH, TOKEN_PATH,
                                  REGISTRATION_PATH, REVOCATION_PATH}

C10_Witness ==
    /\ Returned
    /\ Get(metadata).registration_endpoint = None
    /\ Get(metadata).revocation_endpoint # None
    /\ ~HasPath(Get(ret), REGISTRATION_PATH)
    /\ HasPath(Get(ret), REVOCATION_PATH)

====
